---- MODULE Spec2Model ----
(***************************************************************************)
(* PPOptimizer (src/policy_optimization.py): construction and one call of  *)
(* train_on_data, followed statement by statement, plus the two pure       *)
(* computations of that method (the entropy coefficient schedule and the   *)
(* clipped surrogate policy loss).                                         *)
(*                                                                         *)
(* Numbers: KL estimates and target_kl are in units of 1/1000; the clip    *)
(* quantities are in units of 1/ClipDen; entropy quantities are in units   *)
(* of 10^-(MaxDecades+1), so that 0.1 is Pow10(MaxDecades).                *)
(***************************************************************************)
EXTENDS Integers, Sequences, FiniteSets, TLC

(* ---------------------------- bounds ----------------------------------- *)
NumAgents == 2        \* agents held by the optimizer
MaxPpoSteps == 2      \* largest user-supplied ppo_steps
MaxKL == 3            \* KL estimates range over 0..MaxKL times 5/1000
MaxDecades == 3       \* entropy schedule followed for step/decay_time in 0..MaxDecades
MaxRatio == 25        \* prob_ratio ranges over 1..MaxRatio (in 1/ClipDen)
MaxAdv == 3           \* advantages range over -MaxAdv..MaxAdv
MaxEps == 12          \* clip parameter ranges over 0..MaxEps (in 1/ClipDen)

ClipDen == 10         \* denominator of the fixed-point clip quantities

AgentIx == 1..NumAgents

VARIABLES
    userConfig,     \* the config dict handed to __init__
    config,         \* self.config
    keysRead,       \* config keys consulted so far by __init__ / train_on_data
    agentKind,      \* per agent: return arity of evaluate_actions
    nameBound,      \* whether the global name get_final_action_ratios resolves
    writer,         \* whether a SummaryWriter was passed to train_on_data
    pc,             \* position inside train_on_data
    err,            \* exception that ended the call, "none" otherwise
    cur,            \* index of the agent the outer loop is at
    device,         \* per agent: "cpu" or "gpu"
    it,             \* number of items the range iterator of line 154 has produced
    ppo_step,       \* the loop variable ppo_step
    kl_divergence,  \* the local kl_divergence
    steps,          \* per agent: optimizer.step() calls of this call
    evals,          \* per agent: evaluate_actions calls made inside the loop
    loopState,      \* per agent: NOT_STARTED / RUNNING / EARLY_STOPPED / EXHAUSTED
    started,        \* agents whose loop body of line 95 was entered
    metrics,        \* the local metrics dict, per agent id
    sink,           \* what the writer received: one set of agent ids per write_dict
    e_called,       \* entropy schedule: whether train_on_data was called yet
    e_step,         \* entropy schedule: the step argument of the last call
    entropy_coeff,  \* entropy schedule: the local entropy_coeff of the last call
    c_in,           \* surrogate: prob_ratio and advantage of one batch element
    c_done,         \* surrogate: whether the loss was computed
    policy_loss     \* surrogate: the element's policy_loss (times ClipDen)

mainVars == <<userConfig, config, keysRead, agentKind, nameBound, writer, pc, err, cur,
              device, it, ppo_step, kl_divergence, steps, evals, loopState, started,
              metrics, sink>>
entropyVars == <<e_called, e_step, entropy_coeff>>
clipVars == <<c_in, c_done, policy_loss>>
vars == <<mainVars, entropyVars, clipVars>>

(* ------------------------- configuration ------------------------------- *)
RECURSIVE Pow10(_)
Pow10(k) == IF k <= 0 THEN 1 ELSE 10 * Pow10(k - 1)

Max(x, y) == IF x >= y THEN x ELSE y
Min(x, y) == IF x <= y THEN x ELSE y

\* default_config of __init__; target_kl in 1/1000, eps in 1/ClipDen, the
\* entropy entries in 10^-(MaxDecades+1); gamma, value_loss_coeff and
\* max_grad_norm do not steer the control flow and are kept in 1/1000.
default_config ==
    [ optimizer |-> "adam",
      optimizer_kwargs |-> "lr=1e-3",
      separate_optimizers |-> FALSE,
      gamma |-> 950,
      ppo_steps |-> 25,
      eps |-> 1,
      target_kl |-> 10,
      value_loss_coeff |-> 100,
      entropy_coeff |-> Pow10(MaxDecades),
      entropy_decay_time |-> 100,
      min_entropy |-> Pow10(MaxDecades - 3),
      max_grad_norm |-> 500,
      pad_sequences |-> FALSE,
      use_gpu |-> FALSE ]

DefaultKeys == DOMAIN default_config

\* with_default_config(config, default): the user's entries over the defaults.
with_default_config(cfg, default) == cfg @@ default

\* an optional entry of the user's dict: <<>> absent, <<v>> present with value v
Entry(k, o) == IF o = <<>> THEN <<>> ELSE k :> o[1]
OptOf(S) == {<<>>} \cup {<<v>> : v \in S}

UserConfigs ==
    { Entry("ppo_steps", p) @@ Entry("use_gpu", g) @@ Entry("use_sm", u)
        @@ Entry("sm_coeff", s) :
        p \in OptOf(0..MaxPpoSteps), g \in OptOf({TRUE}), u \in OptOf(BOOLEAN),
        s \in OptOf({500}) }

\* keys __init__ reads from self.config (lines 64, 68, 69)
InitKeys == {"optimizer", "optimizer_kwargs", "gamma", "eps"}

\* self.optimizers: one optimizer per agent of self.agents
optimizers == [a \in AgentIx |-> a]

KLValues == {5 * k : k \in 0..MaxKL}
AgentKinds == {"three", "four", "either"}
Arities(kind) == IF kind = "three" THEN {3} ELSE IF kind = "four" THEN {4} ELSE {3, 4}


(* --------------------- train_on_data, one call ------------------------- *)
Raise(e) == pc' = "raised" /\ err' = e

\* write_dict(metrics, step, writer): every entry of the dict goes to the
\* writer; without a writer nothing is emitted.
write_dict(m, w, out) == IF w THEN Append(out, DOMAIN m) ELSE out

\* __init__ (lines 26-69) and the arguments of the call to come
Constructed(cfg, kinds, bound, w) ==
    /\ userConfig = cfg
    /\ config = with_default_config(cfg, default_config)
    /\ keysRead = InitKeys
    /\ agentKind = kinds
    /\ nameBound = bound
    /\ writer = w
    /\ pc = "idle"
    /\ err = "none"
    /\ cur = 0
    /\ device = [a \in AgentIx |-> "cpu"]
    /\ it = 0
    /\ ppo_step = -1
    /\ kl_divergence = 0
    /\ steps = [a \in AgentIx |-> 0]
    /\ evals = [a \in AgentIx |-> 0]
    /\ loopState = [a \in AgentIx |-> "NOT_STARTED"]
    /\ started = {}
    /\ metrics = <<>>
    /\ sink = <<>>

InitMain ==
    \E cfg \in UserConfigs, kinds \in [AgentIx -> AgentKinds], bound \in BOOLEAN,
       w \in BOOLEAN : Constructed(cfg, kinds, bound, w)

\* lines 85-93: metrics = {}, the timer, the transposed batch, entropy_coeff
BeginCall ==
    /\ pc = "idle"
    /\ metrics' = <<>>
    /\ keysRead' = keysRead \cup {"entropy_coeff", "entropy_decay_time", "min_entropy"}
    /\ cur' = 1
    /\ pc' = "agent"
    /\ UNCHANGED <<userConfig, config, agentKind, nameBound, writer, err, device, it,
                   ppo_step, kl_divergence, steps, evals, loopState, started, sink>>

\* lines 95-121: the next agent of self.agents, its batch, device placement, mask
PrepareAgent ==
    /\ pc = "agent"
    /\ cur <= NumAgents
    /\ started' = started \cup {cur}
    /\ keysRead' = keysRead \cup {"use_gpu", "pad_sequences"}
    /\ device' = IF config["use_gpu"] THEN [device EXCEPT ![cur] = "gpu"] ELSE device
    /\ pc' = "eval0"
    /\ UNCHANGED <<userConfig, config, agentKind, nameBound, writer, err, cur, it,
                   ppo_step, kl_divergence, steps, evals, loopState, metrics, sink>>

\* lines 123-152: the first evaluate_actions, unpacked into three names, then
\* the returns, the advantages and the initial values of the loop's locals
FirstEvaluate ==
    /\ pc = "eval0"
    /\ keysRead' = keysRead \cup {"pad_sequences"}
    /\ \E n \in Arities(agentKind[cur]) :
         IF n # 3
         THEN /\ Raise("ValueError")
              /\ UNCHANGED <<kl_divergence, ppo_step, it, loopState>>
         ELSE /\ kl_divergence' = 0
              /\ ppo_step' = -1
              /\ it' = 0
              /\ loopState' = [loopState EXCEPT ![cur] = "RUNNING"]
              /\ pc' = "loop"
              /\ err' = err
    /\ UNCHANGED <<userConfig, config, agentKind, nameBound, writer, cur, device,
                   steps, evals, started, metrics, sink>>

\* line 154: the for statement takes the next item of range(ppo_steps)
LoopNext ==
    /\ pc = "loop"
    /\ keysRead' = keysRead \cup {"ppo_steps"}
    /\ IF it < config["ppo_steps"]
       THEN /\ ppo_step' = it
            /\ it' = it + 1
            /\ pc' = "eval"
            /\ UNCHANGED loopState
       ELSE /\ loopState' = [loopState EXCEPT ![cur] = "EXHAUSTED"]
            /\ pc' = "metrics"
            /\ UNCHANGED <<ppo_step, it>>
    /\ UNCHANGED <<userConfig, config, agentKind, nameBound, writer, err, cur, device,
                   kl_divergence, steps, evals, started, metrics, sink>>

\* lines 155-163: evaluate_actions unpacked into four names, the KL estimate
\* and the early stop
LoopEvaluate ==
    /\ pc = "eval"
    /\ \E n \in Arities(agentKind[cur]) :
         IF n # 4
         THEN /\ Raise("ValueError")
              /\ keysRead' = keysRead \cup {"pad_sequences"}
              /\ UNCHANGED <<kl_divergence, evals, loopState>>
         ELSE /\ evals' = [evals EXCEPT ![cur] = @ + 1]
              /\ keysRead' = keysRead \cup {"pad_sequences", "target_kl"}
              /\ err' = err
              /\ \E kl \in KLValues :
                   /\ kl_divergence' = kl
                   /\ IF kl > config["target_kl"]
                      THEN /\ loopState' = [loopState EXCEPT ![cur] = "EARLY_STOPPED"]
                           /\ pc' = "metrics"
                      ELSE /\ pc' = "loss"
                           /\ UNCHANGED loopState
    /\ UNCHANGED <<userConfig, config, agentKind, nameBound, writer, cur, device, it,
                   ppo_step, steps, started, metrics, sink>>

\* lines 165-184: the loss; config["use_sm"] and config["sm_coeff"] are
\* subscripted, so a missing key raises KeyError
ComputeLoss ==
    /\ pc = "loss"
    /\ IF "use_sm" \notin DOMAIN config
       THEN /\ Raise("KeyError")
            /\ keysRead' = keysRead \cup {"value_loss_coeff", "use_sm"}
       ELSE IF config["use_sm"] /\ "sm_coeff" \notin DOMAIN config
       THEN /\ Raise("KeyError")
            /\ keysRead' = keysRead \cup {"value_loss_coeff", "use_sm", "sm_coeff"}
       ELSE /\ pc' = "update"
            /\ err' = err
            /\ keysRead' = keysRead \cup {"value_loss_coeff", "use_sm"}
                             \cup (IF config["use_sm"] THEN {"sm_coeff"} ELSE {})
    /\ UNCHANGED <<userConfig, config, agentKind, nameBound, writer, cur, device, it,
                   ppo_step, kl_divergence, steps, evals, loopState, started, metrics,
                   sink>>

\* lines 186-191: zero_grad, backward, gradient clipping, optimizer.step()
UpdateStep ==
    /\ pc = "update"
    /\ keysRead' = keysRead \cup {"max_grad_norm"}
    /\ steps' = [steps EXCEPT ![optimizers[cur]] = @ + 1]
    /\ pc' = "loop"
    /\ UNCHANGED <<userConfig, config, agentKind, nameBound, writer, err, cur, device,
                   it, ppo_step, kl_divergence, evals, loopState, started, metrics,
                   sink>>

\* CollectMetrics without the agent.cpu() of line 195
CollectMetrics_NoCpu ==
    /\ pc = "metrics"
    /\ metrics' = (cur :> [ppo_steps_made |-> ppo_step + 1]) @@ metrics
    /\ keysRead' = keysRead \cup {"pad_sequences"}
    /\ pc' = "ratios"
    /\ UNCHANGED <<userConfig, config, agentKind, nameBound, writer, err, cur, it,
                   ppo_step, kl_divergence, steps, evals, loopState, started, sink,
                   device>>

\* lines 193-231: agent.cpu() and the agent's entries of the metrics dict
\* (of the entries under '{agent_id}/' only ppo_steps_made is followed)
CollectMetrics ==
    /\ pc = "metrics"
    /\ device' = [device EXCEPT ![cur] = "cpu"]
    /\ metrics' = (cur :> [ppo_steps_made |-> ppo_step + 1]) @@ metrics
    /\ keysRead' = keysRead \cup {"pad_sequences"}
    /\ pc' = "ratios"
    /\ UNCHANGED <<userConfig, config, agentKind, nameBound, writer, err, cur, it,
                   ppo_step, kl_divergence, steps, evals, loopState, started, sink>>

\* lines 236-241: get_final_action_ratios is neither imported nor defined by
\* the module; the call raises NameError unless the name is bound from outside
FinalActionRatios ==
    /\ pc = "ratios"
    /\ IF nameBound
       THEN pc' = "write" /\ err' = err
       ELSE Raise("NameError")
    /\ UNCHANGED <<userConfig, config, keysRead, agentKind, nameBound, writer, cur,
                   device, it, ppo_step, kl_divergence, steps, evals, loopState,
                   started, metrics, sink>>

\* lines 243-244: write_dict(metrics, step, writer), then on to the next agent
WriteMetrics ==
    /\ pc = "write"
    /\ sink' = write_dict(metrics, writer, sink)
    /\ cur' = cur + 1
    /\ pc' = "agent"
    /\ UNCHANGED <<userConfig, config, keysRead, agentKind, nameBound, writer, err,
                   device, it, ppo_step, kl_divergence, steps, evals, loopState,
                   started, metrics>>

\* line 246: return metrics
Return ==
    /\ pc = "agent"
    /\ cur > NumAgents
    /\ pc' = "returned"
    /\ UNCHANGED <<userConfig, config, keysRead, agentKind, nameBound, writer, err,
                   cur, device, it, ppo_step, kl_divergence, steps, evals, loopState,
                   started, metrics, sink>>

InitIdleEntropy ==
    /\ e_called = FALSE
    /\ e_step = 0
    /\ entropy_coeff = 0

InitIdleClip ==
    /\ c_in = <<ClipDen, 0>>
    /\ c_done = FALSE
    /\ policy_loss = 0

Init == InitMain /\ InitIdleEntropy /\ InitIdleClip

Next ==
    \/ (BeginCall /\ UNCHANGED <<entropyVars, clipVars>>)
    \/ (PrepareAgent /\ UNCHANGED <<entropyVars, clipVars>>)
    \/ (FirstEvaluate /\ UNCHANGED <<entropyVars, clipVars>>)
    \/ (LoopNext /\ UNCHANGED <<entropyVars, clipVars>>)
    \/ (LoopEvaluate /\ UNCHANGED <<entropyVars, clipVars>>)
    \/ (ComputeLoss /\ UNCHANGED <<entropyVars, clipVars>>)
    \/ (UpdateStep /\ UNCHANGED <<entropyVars, clipVars>>)
    \/ (CollectMetrics /\ UNCHANGED <<entropyVars, clipVars>>)
    \/ (FinalActionRatios /\ UNCHANGED <<entropyVars, clipVars>>)
    \/ (WriteMetrics /\ UNCHANGED <<entropyVars, clipVars>>)
    \/ (Return /\ UNCHANGED <<entropyVars, clipVars>>)

Spec == Init /\ [][Next]_vars


(* ------------------ the entropy coefficient (lines 90-93) -------------- *)
\* user configs that set the three entropy entries
EntropyUserConfigs ==
    { Entry("entropy_coeff", c) @@ Entry("entropy_decay_time", t) @@ Entry("min_entropy", m) :
        c \in OptOf({k * Pow10(MaxDecades) : k \in -1..2}),
        t \in OptOf({1, 2}),
        m \in OptOf({0, Pow10(MaxDecades - 1), Pow10(MaxDecades), 3 * Pow10(MaxDecades)}) }

\* the step arguments followed: whole multiples of entropy_decay_time, where
\* 0.1**(step/entropy_decay_time) is a power of ten
StepsOf(cfg) == {j * cfg["entropy_decay_time"] : j \in 0..MaxDecades}

\* entropy_coeff with min(...) in place of max(...)
entropy_coeff_of_Min(cfg, step) ==
    Min(cfg["entropy_coeff"] \div Pow10(step \div cfg["entropy_decay_time"]),
        cfg["min_entropy"])

\* max(entropy_coeff * 0.1**(step/entropy_decay_time), min_entropy)
entropy_coeff_of(cfg, step) ==
    Max(cfg["entropy_coeff"] \div Pow10(step \div cfg["entropy_decay_time"]),
        cfg["min_entropy"])

\* one call of train_on_data as far as line 93
ComputeEntropyCoeff(step) ==
    /\ e_called' = TRUE
    /\ e_step' = step
    /\ entropy_coeff' = entropy_coeff_of(config, step)
    /\ keysRead' = keysRead \cup {"entropy_coeff", "entropy_decay_time", "min_entropy"}
    /\ UNCHANGED <<userConfig, config, agentKind, nameBound, writer, pc, err, cur,
                   device, it, ppo_step, kl_divergence, steps, evals, loopState,
                   started, metrics, sink>>

InitEntropy ==
    /\ \E cfg \in EntropyUserConfigs :
         Constructed(cfg, [a \in AgentIx |-> "either"], TRUE, FALSE)
    /\ InitIdleEntropy
    /\ InitIdleClip

NextEntropy ==
    \E step \in StepsOf(config) : ComputeEntropyCoeff(step) /\ UNCHANGED clipVars

SpecEntropy == InitEntropy /\ [][NextEntropy]_vars

(* ------------------ the surrogate loss (lines 166-174) ----------------- *)
\* user configs that set the clip parameter
ClipUserConfigs == { Entry("eps", e) : e \in OptOf(0..MaxEps) }

\* torch.clamp(x, lo, hi)
clamp(x, lo, hi) == Min(Max(x, lo), hi)

\* surr2 with the two branches of torch.where exchanged
surr2_Swapped(eps, advantage) ==
    IF advantage > 0 THEN (ClipDen - eps) * advantage ELSE (ClipDen + eps) * advantage

\* lines 170-172: surr2 = torch.where(A > 0, (1 + eps) * A, (1 - eps) * A)
surr2_of(eps, advantage) ==
    IF advantage > 0 THEN (ClipDen + eps) * advantage ELSE (ClipDen - eps) * advantage

\* line 168: surr1 = prob_ratio * advantages_batch
surr1_of(prob_ratio, advantage) == prob_ratio * advantage

\* lines 167-174 for one element of the batch
ComputeSurrogate ==
    /\ ~c_done
    /\ c_done' = TRUE
    /\ policy_loss' = -Min(surr1_of(c_in[1], c_in[2]), surr2_of(config["eps"], c_in[2]))
    /\ UNCHANGED <<mainVars, c_in>>

InitClip ==
    /\ \E cfg \in ClipUserConfigs :
         Constructed(cfg, [a \in AgentIx |-> "either"], TRUE, FALSE)
    /\ InitIdleEntropy
    /\ c_in \in (1..MaxRatio) \X (-MaxAdv..MaxAdv)
    /\ c_done = FALSE
    /\ policy_loss = 0

NextClip == ComputeSurrogate /\ UNCHANGED entropyVars

SpecClip == InitClip /\ [][NextClip]_vars

(* ------------------------------ claims --------------------------------- *)
OnGpu == {a \in AgentIx : device[a] = "gpu"}
Ended == pc \in {"returned", "raised"}

\* C1: the reported '{agent_id}/ppo_steps_made' equals the number of PPO
\* iterations whose optimizer step was applied for that agent; in particular
\* an early stop on iteration 0 reports 0 and leaves the parameters unchanged.
C1_StepsMadeIsStepsApplied ==
    \A a \in DOMAIN metrics : metrics[a].ppo_steps_made = steps[a]

\* C2: when the KL estimate never exceeds target_kl, the update loop of every
\* agent, for every ppo_steps >= 0, applies exactly ppo_steps optimizer steps,
\* ends EXHAUSTED without raising, and reports ppo_steps_made = ppo_steps.
C2_ExhaustsBudget ==
    \A a \in AgentIx :
        /\ ~(pc = "raised" /\ cur = a /\ loopState[a] = "RUNNING")
        /\ loopState[a] = "EXHAUSTED" =>
              /\ steps[a] = config["ppo_steps"]
              /\ a \in DOMAIN metrics => metrics[a].ppo_steps_made = config["ppo_steps"]

\* C3: every configuration key read by __init__ and by every path of
\* train_on_data is present in the merged config: no read fails on a missing key.
C3_NoMissingKey ==
    /\ keysRead \subseteq DOMAIN config
    /\ err # "KeyError"

C6_EveryDefaultKeyConsulted ==
    (pc = "returned" /\ \A a \in AgentIx : steps[a] > 0) => DefaultKeys \subseteq keysRead

\* C7: at the first iteration k whose KL estimate exceeds target_kl no
\* optimizer step is applied in iteration k and nothing more is evaluated or
\* stepped for that agent (k steps after k+1 evaluations), no error is raised
\* and the remaining agents are still processed.
C7_EarlyStop ==
    \A a \in AgentIx : loopState[a] = "EARLY_STOPPED" =>
        /\ evals[a] = steps[a] + 1
        /\ cur = a => steps[a] = ppo_step
        /\ ~(pc = "raised" /\ cur = a)
        /\ Ended => \A b \in AgentIx : b > a => b \in started

\* C9: an agent whose evaluate_actions has a fixed return arity gets through
\* both the evaluation before the loop and the evaluations inside it: no
\* unpacking failure.
C9_FixedArityUnpacks ==
    ~(err = "ValueError" /\ agentKind[cur] \in {"three", "four"})

\* C10: the emission made after agent i's update loop holds agent i's entries
\* only, so every agent's entries reach the sink once.
C10_EmittedOnce ==
    \A i \in 1..Len(sink) : sink[i] = {i}


C8_OneSidedIsSymmetric ==
    c_done =>
        policy_loss = -Min(c_in[1] * c_in[2],
                           clamp(c_in[1], ClipDen - config["eps"], ClipDen + config["eps"])
                             * c_in[2])

\* a negative advantage with the ratio below 1-eps: the clipped term is the minimum
C8_Witness ==
    /\ c_done
    /\ config["eps"] > 0
    /\ c_in[2] < 0
    /\ c_in[1] < ClipDen - config["eps"]
    /\ policy_loss = -((ClipDen - config["eps"]) * c_in[2])

====
